---- MODULE Spec2Model ----
(***************************************************************************)
(* Model of the pdf-engine detection and generation core:                  *)
(*   app/services/template_service.py  (generation orchestrator, inserter) *)
(*   app/utils/text_detection.py       (text detector, width measurement)  *)
(* Rectangle coordinates are integers in points; derived positions, font   *)
(* sizes and text widths are exact rationals, so that the 0.5 pt decrement *)
(* and the 0.3/0.35/0.6/0.9 em character widths keep their values.         *)
(***************************************************************************)
EXTENDS Integers, Sequences, FiniteSets, TLC

VARIABLES
    tmpl,   \* the placeholders of the template, in order
    run,    \* the generate/apply request in progress and its outcome
    page,   \* the page and rectangle handed to the detector
    det,    \* the detector's result
    call,   \* the arguments of the _insert_text call in progress
    drawn   \* the draw calls _insert_text has made, and whether it raised

vars == <<tmpl, run, page, det, call, drawn>>

(***************************************************************************)
(* Bounds of the model.                                                    *)
(***************************************************************************)
MaxPlaceholders == 2
MaxPages == 1
MaxWidgets == 2
MaxDictLines == 2
MaxLineY == 1
MaxWords == 3
MaxY == 6
MaxOcrLen == 4
MaxTextLen == 3
MaxPriorLines == 2
MaxRows == 3

(***************************************************************************)
(* Small helpers.                                                          *)
(***************************************************************************)
Max2(a, b) == IF a >= b THEN a ELSE b
Min2(a, b) == IF a <= b THEN a ELSE b
Range(s) == {s[i] : i \in 1..Len(s)}
SeqsUpTo(S, n) == UNION {[1..k -> S] : k \in 0..n}

\* dict.get(key, default): the default is used only when the key is missing,
\* a stored None ("null") is returned as it is.
DictGet(d, k, default) == IF k \in DOMAIN d THEN d[k] ELSE default

\* dict.update(other)
DictUpdate(d, other) ==
    [k \in (DOMAIN d) \cup (DOMAIN other) |->
        IF k \in DOMAIN other THEN other[k] ELSE d[k]]

EmptyDict == [k \in {} |-> "null"]

(***************************************************************************)
(* Geometry.                                                               *)
(***************************************************************************)
Rect(x0, y0, x1, y1) == [x0 |-> x0, y0 |-> y0, x1 |-> x1, y1 |-> y1]

\* fitz.Rect.intersects: the two rectangles share a non-empty area
Intersects(a, b) ==
    /\ Max2(a.x0, b.x0) < Min2(a.x1, b.x1)
    /\ Max2(a.y0, b.y0) < Min2(a.y1, b.y1)

CleanRectUnexpanded(r) == r
CleanRect(r) == Rect(r.x0 - 2, r.y0 - 2, r.x1 + 2, r.y1 + 2)

(***************************************************************************)
(* Text: a string is a sequence of one-character strings.                  *)
(***************************************************************************)
NL == "\n"
IsSpace(c) == c \in {" ", NL}

RECURSIVE LStrip(_)
LStrip(s) == IF s = <<>> THEN s ELSE IF IsSpace(Head(s)) THEN LStrip(Tail(s)) ELSE s

RECURSIVE RStrip(_)
RStrip(s) ==
    IF s = <<>> THEN s
    ELSE IF IsSpace(s[Len(s)]) THEN RStrip(SubSeq(s, 1, Len(s) - 1)) ELSE s

\* str.strip()
Strip(s) == RStrip(LStrip(s))

\* str.split(sep): one more piece than there are separators
RECURSIVE Split(_, _)
Split(s, sep) ==
    IF \A k \in 1..Len(s) : s[k] # sep THEN <<s>>
    ELSE LET k == CHOOSE j \in 1..Len(s) :
                    s[j] = sep /\ \A m \in 1..(j - 1) : s[m] # sep
         IN <<SubSeq(s, 1, k - 1)>> \o Split(SubSeq(s, k + 1, Len(s)), sep)

\* sep.join(parts)
RECURSIVE Join(_, _)
Join(parts, sep) ==
    IF parts = <<>> THEN <<>>
    ELSE IF Len(parts) = 1 THEN parts[1]
    ELSE parts[1] \o <<sep>> \o Join(Tail(parts), sep)

(***************************************************************************)
(* Rationals, for the positions and sizes the detector derives.            *)
(***************************************************************************)
RECURSIVE GCD(_, _)
GCD(a, b) == IF b = 0 THEN a ELSE GCD(b, a % b)

\* n/d in lowest terms, d > 0
\* (the set binds n and d as values, so that each is worked out once)
Reduced(n, d) ==
    [num |-> n \div GCD(IF n < 0 THEN -n ELSE n, d),
     den |-> d \div GCD(IF n < 0 THEN -n ELSE n, d)]
Q(n, d) == CHOOSE q \in {Reduced(x, y) : x \in {n}, y \in {d}} : TRUE
QInt(n) == Q(n, 1)
QLe(a, b) == a.num * b.den <= b.num * a.den
QLt(a, b) == a.num * b.den < b.num * a.den
QAdd(a, b) == Q(a.num * b.den + b.num * a.den, a.den * b.den)
QSub(a, b) == Q(a.num * b.den - b.num * a.den, a.den * b.den)
QMul(a, b) == Q(a.num * b.num, a.den * b.den)
QDivInt(a, k) == Q(a.num, a.den * k)
QMin(a, b) == IF QLt(b, a) THEN b ELSE a
QMax(a, b) == IF QLt(a, b) THEN b ELSE a

(***************************************************************************)
(* Text detector (app/utils/text_detection.py).                            *)
(***************************************************************************)
Tolerance == 5

\* sorted(seq, key): stable insertion sort of <<key, item>> pairs by rational key
RECURSIVE InsertSorted(_, _)
InsertSorted(x, sorted) ==
    IF sorted = <<>> THEN <<x>>
    ELSE IF QLe(Head(sorted)[1], x[1]) THEN <<Head(sorted)>> \o InsertSorted(x, Tail(sorted))
    ELSE <<x>> \o sorted

RECURSIVE SortPairs(_)
SortPairs(pairs) ==
    IF pairs = <<>> THEN <<>>
    ELSE InsertSorted(pairs[Len(pairs)], SortPairs(SubSeq(pairs, 1, Len(pairs) - 1)))

\* the items of seq ordered by keys[i], ties in input order
SortedBy(seq, keys) ==
    LET sorted == SortPairs([i \in 1..Len(seq) |-> <<keys[i], seq[i]>>])
    IN [i \in 1..Len(seq) |-> sorted[i][2]]

Found(text, lines) == [text |-> text, lines |-> lines]
Nothing == Found(<<>>, <<>>)

\* _detect_from_widgets: the first intersecting widget with a value
DetectFromWidgets(pg, rect) ==
    LET hits == {i \in 1..Len(pg.widgets) :
                    /\ Intersects(pg.widgets[i].rect, rect)
                    /\ pg.widgets[i].value # <<>>}
    IN IF hits = {} THEN Nothing
       ELSE LET i == CHOOSE k \in hits : \A m \in hits : k <= m
                text == pg.widgets[i].value
            IN Found(text, <<[text |-> text,
                              baseline |-> Q(rect.y1 - 2, 1),
                              size |-> Q(rect.y1 - rect.y0, 1)]>>)

\* _detect_from_text_dict: the record of one layout line
TextDictLine(line) ==
    [text |-> Strip(Join(line.spans, " ")),
     baseline |-> Q(line.origin, 1),
     y0 |-> line.y0, y1 |-> line.y1,
     size |-> Q(line.size, 1), font |-> "helv", color |-> 0]

\* the sort key of a line: y0, or the baseline when there is no y0
LineTop(l) == IF "y0" \in DOMAIN l THEN Q(l.y0, 1) ELSE l.baseline

\* _detect_from_text_dict: non-blank lines, sorted by y0
DetectFromTextDict(pg, rect) ==
    LET kept == SelectSeq(pg.dict, LAMBDA line : Strip(Join(line.spans, " ")) # <<>>)
        found == [i \in 1..Len(kept) |-> TextDictLine(kept[i])]
        all_lines == SortedBy(found, [i \in 1..Len(found) |-> LineTop(found[i])])
    IN IF all_lines # <<>>
       THEN Found(Join([i \in 1..Len(all_lines) |-> all_lines[i].text], NL), all_lines)
       ELSE Nothing

\* twice the vertical center of a word
Center2(w) == w.y0 + w.y1
Abs(x) == IF x < 0 THEN 0 - x ELSE x

\* a word is near a cluster key when the centers differ by less than the tolerance
NearKeyHalf(k, c) == Abs(k - c) < Tolerance
NearKeyInclusive(k, c) == Abs(k - c) <= 2 * Tolerance
NearKey(k, c) == Abs(k - c) < 2 * Tolerance

\* the grouping loop: clusters in creation order, keyed by the first word's center
RECURSIVE GroupWords(_, _)
GroupWords(words, groups) ==
    IF words = <<>> THEN groups
    ELSE LET w == Head(words)
             c == Center2(w)
             near == {g \in 1..Len(groups) : NearKey(groups[g].key, c)}
         IN IF near = {}
            THEN GroupWords(Tail(words), Append(groups, [key |-> c, members |-> <<w>>]))
            ELSE LET g == CHOOSE k \in near : \A m \in near : k <= m
                 IN GroupWords(Tail(words),
                               [groups EXCEPT ![g].members = Append(@, w)])

MinOf(S) == CHOOSE x \in S : \A y \in S : x <= y
MaxOf(S) == CHOOSE x \in S : \A y \in S : x >= y

\* the line record of one cluster, its words left in extraction order
ClusterLineUnsorted(group) ==
    LET ws == group.members
        y0 == MinOf({ws[i].y0 : i \in 1..Len(ws)})
        y1 == MaxOf({ws[i].y1 : i \in 1..Len(ws)})
    IN [text |-> Join([i \in 1..Len(ws) |-> ws[i].text], " "),
        baseline |-> Q(10 * y1 - 2 * (y1 - y0), 10),
        y0 |-> y0, y1 |-> y1,
        size |-> Q(8 * (y1 - y0), 10)]

\* the line record of one cluster
ClusterLine(group) ==
    LET ws == SortedBy(group.members,
                       [i \in 1..Len(group.members) |-> Q(group.members[i].x0, 1)])
        y0 == MinOf({ws[i].y0 : i \in 1..Len(ws)})
        y1 == MaxOf({ws[i].y1 : i \in 1..Len(ws)})
    IN [text |-> Join([i \in 1..Len(ws) |-> ws[i].text], " "),
        baseline |-> Q(10 * y1 - 2 * (y1 - y0), 10),
        y0 |-> y0, y1 |-> y1,
        size |-> Q(8 * (y1 - y0), 10)]

\* the clusters in the order their lines are emitted: sorted(lines.keys())
ClustersInOrder(groups) ==
    SortedBy(groups, [g \in 1..Len(groups) |-> Q(groups[g].key, 1)])

\* _detect_from_word_clusters
DetectFromWordClusters(pg, rect) ==
    IF pg.words = <<>> THEN Nothing
    ELSE LET sorted == ClustersInOrder(GroupWords(pg.words, <<>>))
             lines_data == [i \in 1..Len(sorted) |-> ClusterLine(sorted[i])]
         IN Found(Join([i \in 1..Len(lines_data) |-> lines_data[i].text], NL), lines_data)

\* _detect_from_ocr: the lines of the stripped OCR text, blank ones left out
RECURSIVE OcrLines(_, _, _)
OcrLines(ocr_lines, i, rect) ==
    IF i > Len(ocr_lines) THEN <<>>
    ELSE LET n == Max2(Len(ocr_lines), 1)
             rest == OcrLines(ocr_lines, i + 1, rect)
         IN IF Strip(ocr_lines[i]) # <<>>
            THEN <<[text |-> Strip(ocr_lines[i]),
                    baseline |-> Q(rect.y0 * n + i * (rect.y1 - rect.y0) - 2 * n, n),
                    size |-> Q(8 * (rect.y1 - rect.y0), 10 * n)]>> \o rest
            ELSE rest

\* an exception in the rendering or the OCR call is caught here
DetectFromOcr(pg, rect) ==
    LET ocr_text == Strip(pg.ocr)
    IN IF pg.raises = "ocr" THEN Nothing
       ELSE IF ocr_text # <<>>
       THEN Found(ocr_text, OcrLines(Split(ocr_text, NL), 1, rect))
       ELSE Nothing

Detection(text, source, lines) == [text |-> text, source |-> source, lines |-> lines]

\* detect_text left by an exception: there is no result
Raised == Detection(<<>>, "raised", <<>>)

\* detect_text: the strategies in order, the first non-empty text wins
DetectTextLayoutFirst(pg, rect) ==
    LET w == DetectFromWidgets(pg, rect)
        d == DetectFromTextDict(pg, rect)
        c == DetectFromWordClusters(pg, rect)
        o == DetectFromOcr(pg, rect)
    IN IF pg.raises = "dict" THEN Raised
       ELSE IF d.text # <<>> THEN Detection(d.text, "Precise Layout", d.lines)
       ELSE IF pg.raises = "widgets" THEN Raised
       ELSE IF w.text # <<>> THEN Detection(w.text, "Form Field", w.lines)
       ELSE IF pg.raises = "words" THEN Raised
       ELSE IF c.text # <<>> THEN Detection(c.text, "Clustered Words", c.lines)
       ELSE IF pg.ocr_available
       THEN (IF o.text # <<>> THEN Detection(o.text, "OCR", o.lines)
             ELSE Detection(o.text, "Empty", o.lines))
       ELSE Detection(c.text, "Empty", c.lines)

DetectText(pg, rect) ==
    LET w == DetectFromWidgets(pg, rect)
        d == DetectFromTextDict(pg, rect)
        c == DetectFromWordClusters(pg, rect)
        o == DetectFromOcr(pg, rect)
    IN IF pg.raises = "widgets" THEN Raised
       ELSE IF w.text # <<>> THEN Detection(w.text, "Form Field", w.lines)
       ELSE IF pg.raises = "dict" THEN Raised
       ELSE IF d.text # <<>> THEN Detection(d.text, "Precise Layout", d.lines)
       ELSE IF pg.raises = "words" THEN Raised
       ELSE IF c.text # <<>> THEN Detection(c.text, "Clustered Words", c.lines)
       ELSE IF pg.ocr_available
       THEN (IF o.text # <<>> THEN Detection(o.text, "OCR", o.lines)
             ELSE Detection(o.text, "Empty", o.lines))
       ELSE Detection(c.text, "Empty", c.lines)

(***************************************************************************)
(* Optional numbers: None is <<>>, the number q is <<q>>.                  *)
(***************************************************************************)
None == <<>>
Some(q) == <<q>>

\* truth value of an optional number: None and 0 are false
Truthy(v) == v # None /\ v[1].num # 0

(***************************************************************************)
(* Styles: a style is None (<<>>) or <<dict>>, the dict being the          *)
(* model_dump of a PlaceholderStyle (every key present, an unset optional  *)
(* number stored as None, an unset optional colour as "null").             *)
(***************************************************************************)
PlaceholderStyle(fs, color, bg, bgo, bgw, bgh) ==
    [font_size |-> fs, font_name |-> "helv", font_weight |-> "normal",
     color |-> color, opacity |-> QInt(1), background_color |-> bg,
     background_opacity |-> bgo, background_width |-> bgw,
     background_height |-> bgh, padding |-> QInt(1)]

StyleDefault == PlaceholderStyle(None, "#000000", "#FFFFFF", QInt(1), None, None)
StyleNullBg == PlaceholderStyle(None, "#000000", "null", QInt(1), None, None)
StyleRed == PlaceholderStyle(None, "#FF0000", "#FFFFFF", QInt(1), None, None)
\* a 14 pt style with a grey, half-opaque background 50 wide
StyleCustom ==
    PlaceholderStyle(Some(QInt(14)), "#000000", "#CCCCCC", Q(1, 2), Some(QInt(50)), None)
StyleSized ==
    PlaceholderStyle(None, "#000000", "#CCCCCC", Q(1, 2), Some(QInt(50)), Some(QInt(10)))

\* the dump of the PlaceholderStyle that is built from the fields a caller sent:
\* every field is there, the ones not sent with their defaults
ModelDump(sent) == DictUpdate(StyleDefault, sent)

NoStyle == <<>>
Styles == {NoStyle, <<StyleDefault>>, <<StyleNullBg>>}

\* hex_to_rgb raises on None (no lstrip on NoneType)
HexToRgbRaises(hex) == hex = "null"

(***************************************************************************)
(* measure_text_width: the width estimate of text_detection.py, the sum of *)
(* per-character widths in ems times the font size.                        *)
(***************************************************************************)
\* (the apostrophe and the backquote, narrow too, are not in the model's alphabet)
NarrowChars == {"i", "l", ".", ",", ":", ";", "|", "!"}
WideChars == {"w", "m", "M", "W", "@", "#", "%", "&"}

CharEm(ch) ==
    IF ch = " " THEN Q(35, 100)
    ELSE IF ch \in NarrowChars THEN Q(3, 10)
    ELSE IF ch \in WideChars THEN Q(9, 10)
    ELSE Q(6, 10)

RECURSIVE MeasureTextWidth(_, _, _)
MeasureTextWidth(text, fontname, fontsize) ==
    IF text = <<>> THEN QInt(0)
    ELSE QAdd(QMul(CharEm(Head(text)), fontsize),
              MeasureTextWidth(Tail(text), fontname, fontsize))

(***************************************************************************)
(* _insert_text: one draw call per non-blank line of the new text.         *)
(***************************************************************************)
\* bold variant of the base fonts
FontName(style_fontname, style_fontweight) ==
    IF style_fontweight # "bold" THEN style_fontname
    ELSE IF style_fontname = "helv" THEN "hebo"
    ELSE IF style_fontname = "times-roman" THEN "tibo"
    ELSE IF style_fontname = "courier" THEN "cobo"
    ELSE style_fontname

\* position and candidate size of one line; the size is still optional here
Layout(baseline_y, fontsize) ==
    [raised |-> FALSE, baseline |-> baseline_y, fontsize |-> fontsize]

\* arithmetic on None: TypeError
LayoutRaises == [raised |-> TRUE, baseline |-> QInt(0), fontsize |-> None]

\* strict match: the baseline and size of the prior line at the same index
StrictLayout(rect, line_data, style_fontsize) ==
    Layout(DictGet(line_data, "baseline", Some(QInt(rect.y0 + 12)))[1],
           IF ~Truthy(style_fontsize)
           THEN DictGet(line_data, "size", Some(QInt(10)))
           ELSE style_fontsize)

\* otherwise, with prior lines: a pitch deduced from them
PitchLayout(rect, lines_data, style_fontsize, i) ==
    LET n == Len(lines_data)
        first == lines_data[1]
        last == lines_data[n]
        first_y0 == DictGet(first, "y0",
                        Some(QSub(DictGet(first, "baseline", Some(QInt(rect.y0)))[1],
                                  QInt(10))))
        last_y1 == DictGet(last, "y1", DictGet(last, "baseline", Some(QInt(rect.y1))))
        size0 == DictGet(first, "size", Some(QInt(12)))
        raises == IF n > 1 THEN first_y0 = None \/ last_y1 = None ELSE size0 = None
        raw == IF n > 1 THEN QDivInt(QSub(last_y1[1], first_y0[1]), n)
               ELSE QMul(size0[1], Q(12, 10))
        avg_height == IF QLe(raw, QInt(0)) THEN QInt(12) ELSE raw
        baseline_y ==
            IF i < n
            THEN DictGet(lines_data[i + 1], "baseline",
                         Some(QAdd(QInt(rect.y0), QMul(QInt(i + 1), avg_height))))[1]
            ELSE QAdd(DictGet(last, "baseline", Some(QInt(rect.y0)))[1],
                      QMul(avg_height, QInt(i - n + 1)))
    IN IF raises THEN LayoutRaises
       ELSE Layout(baseline_y,
                   IF ~Truthy(style_fontsize)
                   THEN DictGet(first, "size", Some(QInt(10)))
                   ELSE style_fontsize)

\* without prior lines: the lines share the box height evenly
\* (EvenLayoutFullSlot: the baseline at the bottom of the slot)
EvenLayoutFullSlot(rect, num_new_lines, style_fontsize, i) ==
    LET h == Q(rect.y1 - rect.y0, Max2(num_new_lines, 1))
    IN Layout(QAdd(QInt(rect.y0), QMul(Q(10 * i + 10, 10), h)),
              IF ~Truthy(style_fontsize)
              THEN Some(QMin(QMul(h, Q(75, 100)), QInt(12)))
              ELSE style_fontsize)
EvenLayout(rect, num_new_lines, style_fontsize, i) ==
    LET h == Q(rect.y1 - rect.y0, Max2(num_new_lines, 1))
    IN Layout(QAdd(QInt(rect.y0), QMul(Q(10 * i + 8, 10), h)),
              IF ~Truthy(style_fontsize)
              THEN Some(QMin(QMul(h, Q(75, 100)), QInt(12)))
              ELSE style_fontsize)

\* the layout of line i of the new text, i being the index enumerate gives it
\* (LineLayoutSkippingBlank: the layout had a blank first line taken no index)
LineLayoutSkippingBlank(rect, num_new_lines, lines_data, strict_match, style_fontsize, i) ==
    LET k == IF i > 0 THEN i - 1 ELSE 0
    IN IF strict_match /\ k < Len(lines_data) /\ DOMAIN lines_data[k + 1] # {}
       THEN StrictLayout(rect, lines_data[k + 1], style_fontsize)
       ELSE IF Len(lines_data) > 0
       THEN PitchLayout(rect, lines_data, style_fontsize, k)
       ELSE EvenLayout(rect, num_new_lines, style_fontsize, k)
LineLayout(rect, num_new_lines, lines_data, strict_match, style_fontsize, i) ==
    IF strict_match /\ i < Len(lines_data) /\ DOMAIN lines_data[i + 1] # {}
    THEN StrictLayout(rect, lines_data[i + 1], style_fontsize)
    ELSE IF Len(lines_data) > 0
    THEN PitchLayout(rect, lines_data, style_fontsize, i)
    ELSE EvenLayout(rect, num_new_lines, style_fontsize, i)

\* the candidate size brought into [4, max_font]
ClampFontSize(fontsize, style_fontsize) ==
    LET max_font == IF Truthy(style_fontsize) /\ QLt(QInt(14), style_fontsize[1])
                    THEN style_fontsize[1] ELSE QInt(72)
    IN QMax(QInt(4), QMin(fontsize, max_font))

\* the width the line must stay under
AvailableWidth(rect, style_padding) ==
    QSub(QInt(rect.x1 - rect.x0), QMul(style_padding, QInt(2)))

\* the auto-fit loop
RECURSIVE AutoFit(_, _, _, _)
AutoFit(line_text, fontname, fontsize, avail) ==
    IF ~QLt(QInt(4), fontsize) THEN fontsize
    ELSE IF QLt(MeasureTextWidth(line_text, fontname, fontsize), avail) THEN fontsize
    ELSE AutoFit(line_text, fontname, QSub(fontsize, Q(1, 2)), avail)

DrawCall(i, line_text, x, baseline_y, fontname, fontsize, original_fontsize, color) ==
    [line |-> i, text |-> line_text, x |-> x, baseline |-> baseline_y,
     fontname |-> fontname, fontsize |-> fontsize,
     original_fontsize |-> original_fontsize, color |-> color]

Drawn(status, draws) == [status |-> status, draws |-> draws]

\* the loop over the lines of the new text, from line i (counted from 0)
RECURSIVE InsertLines(_, _, _, _, _, _, _)
InsertLines(rect, new_lines, lines_data, strict_match, style, i, draws) ==
    IF i >= Len(new_lines) THEN Drawn("ok", draws)
    ELSE
      LET line_text == Strip(new_lines[i + 1])
          style_fontsize == DictGet(style, "font_size", None)
          style_padding == DictGet(style, "padding", QInt(1))
          fontname == FontName(DictGet(style, "font_name", "helv"),
                               DictGet(style, "font_weight", "normal"))
          lay == LineLayout(rect, Len(new_lines), lines_data, strict_match,
                            style_fontsize, i)
          original_fontsize == ClampFontSize(lay.fontsize[1], style_fontsize)
          fontsize == AutoFit(line_text, fontname, original_fontsize,
                              AvailableWidth(rect, style_padding))
      IN IF line_text = <<>>
         THEN InsertLines(rect, new_lines, lines_data, strict_match, style, i + 1, draws)
         ELSE IF lay.raised \/ lay.fontsize = None
         THEN Drawn("raise", draws)
         ELSE InsertLines(rect, new_lines, lines_data, strict_match, style, i + 1,
                  Append(draws,
                         DrawCall(i, line_text, QAdd(QInt(rect.x0), style_padding),
                                  lay.baseline, fontname, fontsize, original_fontsize,
                                  DictGet(style, "color", "#000000"))))

\* lines_data None and [] are the same list here, style None the empty dict
InsertText(rect, new_text, lines_data, strict_match, style) ==
    LET dict == IF style = NoStyle THEN EmptyDict ELSE style[1]
    IN IF HexToRgbRaises(DictGet(dict, "color", "#000000"))
       THEN Drawn("raise", <<>>)
       ELSE InsertLines(rect, Split(new_text, NL), lines_data, strict_match, dict,
                        0, <<>>)

NoCall ==
    [pending |-> FALSE, rect |-> Rect(0, 0, 0, 0), new_text |-> <<>>, lines_data |-> <<>>,
     strict_match |-> FALSE, style |-> NoStyle]
NoDraws == Drawn("none", <<>>)

(***************************************************************************)
(* Template, request and target document.                                  *)
(***************************************************************************)
Labels == 1..MaxPlaceholders

RectA == Rect(100, 200, 300, 220)
RectB == Rect(100, 300, 300, 320)
Rects == {RectA, RectB}

\* a form widget just right of RectA: it meets RectA's clean rectangle only
WidgetRect == Rect(301, 200, 320, 220)

\* the geometry and default style a placeholder is created with
PlaceholderKinds ==
    {[rect |-> RectA, style |-> NoStyle],
     [rect |-> RectB, style |-> <<StyleDefault>>],
     [rect |-> RectA, style |-> <<StyleNullBg>>],
     [rect |-> RectB, style |-> <<StyleCustom>>],
     [rect |-> RectB, style |-> <<StyleSized>>]}

Placeholders ==
    {[label |-> l, page |-> p, rect |-> k.rect, style |-> k.style,
      content_type |-> "text"] :
        l \in Labels, p \in 0..MaxPages, k \in PlaceholderKinds}

\* create_template rejects duplicate labels
UniqueLabels(phs) ==
    \A i, j \in 1..Len(phs) : phs[i].label = phs[j].label => i = j

\* a replacement is a plain string or a ReplacementValue; the style of a
\* ReplacementValue is held as the fields the caller sent
StrRepl(v) == [kind |-> "str", value |-> v, content_type |-> "text", style |-> NoStyle]
RvRepl(v, ct, st) == [kind |-> "rv", value |-> v, content_type |-> ct, style |-> st]

GenReplacements ==
    {StrRepl(""), StrRepl("x"), RvRepl("", "text", NoStyle),
     RvRepl("x", "image", <<[color |-> "#FF0000"]>>)}
ApplyReplacements == {StrRepl(""), StrRepl("x")}

ReplacementMaps(R) == UNION {[K -> R] : K \in SUBSET Labels}

\* a stored document: its pages, its form widgets, the text the detector finds at
\* the placeholder rectangles, and whether saving a copy of it fails
Doc(npages, widgets, text, save_fails) ==
    [npages |-> npages, widgets |-> widgets, text |-> text, save_fails |-> save_fails]
DocPlain(n) == Doc(n, {}, "", FALSE)
DocsOf(n) ==
    {DocPlain(n),
     Doc(n, {[page |-> 0, rect |-> WidgetRect]}, "", FALSE),
     Doc(n, {}, "o", FALSE),
     Doc(n, {[page |-> 0, rect |-> WidgetRect]}, "o", FALSE),
     Doc(n, {}, "", TRUE)}
\* upload_pdf stores whatever opens as a PDF, a file without pages included
Docs == {DocPlain(0)} \cup UNION {DocsOf(n) : n \in 1..MaxPages}

\* the requests of detect_text_in_area: a page index and a rectangle
TinyRect == Rect(100, 200, 100, 220)
AreaRequests == [page : 0..MaxPages, rect : {RectA, TinyRect}]

(***************************************************************************)
(* The pages handed to the detector: what the page handle answers for      *)
(* widgets(), get_text("dict"), get_text("words") and the OCR engine.      *)
(* Each family varies one source and keeps the others simple.              *)
(***************************************************************************)
WidgetIn == Rect(110, 202, 200, 218)
WidgetFar == Rect(301, 200, 320, 220)

Widgets == [rect : {WidgetIn, WidgetFar}, value : {<<>>, <<"f">>, <<"g">>}]
WidgetLists == SeqsUpTo(Widgets, MaxWidgets)

SpanLists == {<<>>, << <<" ">> >>, << <<"a">> >>, << <<"a">>, <<"b", " ">> >>}
DictLine(spans, y0) ==
    [spans |-> spans, y0 |-> y0, y1 |-> y0 + 12, origin |-> y0 + 10, size |-> 10]
DictList(k, sp, dy, rect) == [i \in 1..k |-> DictLine(sp[i], rect.y0 + dy[i])]

\* the words come in extraction order; x0 runs with or against that order
WordChars == <<"p", "q", "r", "s", "t", "u">>
WordHeights == {1, 4}
WordBoxes == [dy : 0..MaxY, h : WordHeights]
WordList(k, box, xdesc, rect) ==
    [i \in 1..k |->
        [x0 |-> rect.x0 + (IF xdesc THEN k - i ELSE i),
         y0 |-> rect.y0 + box[i].dy,
         y1 |-> rect.y0 + box[i].dy + box[i].h,
         text |-> <<WordChars[i]>>]]

OcrChars == {"a", " ", NL}
OcrTexts == SeqsUpTo(OcrChars, MaxOcrLen)

SimpleWidgets == {<<>>, <<[rect |-> WidgetIn, value |-> <<"f">>]>>}
SimpleDict(rect) == {<<>>, <<DictLine(<< <<"a">> >>, rect.y0)>>}
SimpleWords(rect) ==
    {<<>>, <<[x0 |-> rect.x0, y0 |-> rect.y0, y1 |-> rect.y0 + 10, text |-> <<"p">>]>>}
SimpleOcr == {<<>>, <<"a">>}

Page(rect, widgets, dict, words, ocr, avail) ==
    [rect |-> rect, widgets |-> widgets, dict |-> dict, words |-> words,
     ocr |-> ocr, ocr_available |-> avail, raises |-> "none"]

\* a page on which the library call of one strategy raises: page.widgets(),
\* get_text("dict"), get_text("words"), or the rendering and OCR of the region;
\* the call that raises delivers no data
Strategies == {"widgets", "dict", "words", "ocr"}
FaultyPage(pg, f) ==
    [pg EXCEPT !.raises = f,
               !.widgets = IF f = "widgets" THEN <<>> ELSE @,
               !.dict = IF f = "dict" THEN <<>> ELSE @,
               !.words = IF f = "words" THEN <<>> ELSE @,
               !.ocr = IF f = "ocr" THEN <<>> ELSE @]

PageByWidgets(pg) ==
    \E r \in Rects, w \in WidgetLists, av \in BOOLEAN :
      \E d \in SimpleDict(r), c \in SimpleWords(r), o \in SimpleOcr :
        pg = Page(r, w, d, c, o, av)
PageByLayout(pg) ==
    \E r \in Rects, k \in 0..MaxDictLines, av \in BOOLEAN :
      \E sp \in [1..k -> SpanLists], dy \in [1..k -> 0..MaxLineY],
         c \in SimpleWords(r), o \in SimpleOcr :
        pg = Page(r, <<[rect |-> WidgetIn, value |-> <<>>]>>,
                  DictList(k, sp, dy, r), c, o, av)
PageByWords(pg) ==
    \E k \in 0..MaxWords, xdesc \in BOOLEAN :
      \E box \in [1..k -> WordBoxes] :
        pg = Page(RectA, <<>>, <<>>, WordList(k, box, xdesc, RectA), <<"a">>, TRUE)
PageByOcr(pg) ==
    \E r \in Rects, o \in OcrTexts, av \in BOOLEAN :
        pg = Page(r, <<>>, <<>>, <<>>, o, av)

PageByFault(pg) ==
    \E r \in Rects, f \in Strategies, av \in BOOLEAN :
      \E w \in SimpleWidgets, d \in SimpleDict(r), c \in SimpleWords(r), o \in SimpleOcr :
        pg = FaultyPage(Page(r, w, d, c, o, av), f)

NoPage == Page(RectA, <<>>, <<>>, <<>>, <<>>, FALSE)
NoDetection == Detection(<<>>, "none", <<>>)

(***************************************************************************)
(* Generation orchestrator.                                                *)
(***************************************************************************)
Event(op, ph, rect, arg) == [op |-> op, ph |-> ph, rect |-> rect, arg |-> arg]
NoRect == Rect(0, 0, 0, 0)

\* the stored file of the document, and the fresh path the result is saved to
SourcePath == "source.pdf"
OutputPath == "generated.pdf"

\* the labels of the template that have no key in the replacements
MissingLabelsUnchecked(phs, repl) == {}
MissingLabels(phs, repl) == {phs[i].label : i \in 1..Len(phs)} \ DOMAIN repl

\* generate_document skips a placeholder whose replacement is falsy or whose
\* resolved value is empty
GenSkipsNever(r) == FALSE
GenSkips(r) ==
    \/ r.kind = "str" /\ r.value = ""
    \/ r.value = ""

\* the style a replacement brings: none for a plain string, else the whole dump
ReplacementStyle(r) ==
    IF r.kind = "str" \/ r.style = NoStyle THEN NoStyle
    ELSE <<ModelDump(r.style[1])>>

\* effective style of generate_document: copy of the placeholder's style,
\* updated with the whole dump of the replacement's style
EffectiveStyle(phStyle, replStyle) ==
    LET base == IF phStyle = NoStyle THEN EmptyDict ELSE phStyle[1]
    IN IF replStyle = NoStyle THEN base ELSE DictUpdate(base, replStyle[1])

\* the placeholder's own style after the merge: the update is done on a copy
StyleMergedInPlace(phStyle, eff) == IF phStyle = NoStyle THEN phStyle ELSE <<eff>>
StyleAfterMerge(phStyle, eff) == phStyle

\* the widgets of the page that intersect the clean rectangle
WidgetsToDelete(widgets, pno, clean) ==
    {w \in widgets : w.page = pno /\ Intersects(w.rect, clean)}

RECURSIVE DeleteEvents(_, _)
DeleteEvents(ws, i) ==
    IF ws = {} THEN <<>>
    ELSE LET w == CHOOSE x \in ws : TRUE
         IN <<Event("delete_widget", i, w.rect, "")>> \o DeleteEvents(ws \ {w}, i)

\* the rectangle of the custom background: of the given size at the top left
\* corner of the placeholder when both sizes are set, else the clean rectangle
\* (the sizes of the palette are whole points)
Whole(v) == v[1].num \div v[1].den
BgRect(rect, clean, bgw, bgh) ==
    IF Truthy(bgw) /\ Truthy(bgh)
    THEN Rect(rect.x0, rect.y0, rect.x0 + Whole(bgw), rect.y0 + Whole(bgh))
    ELSE clean

\* the place of a placeholder in the document, and the text the detector finds there
Region(ph) == <<ph.page, ph.rect>>
TextAt(acc, ph) == acc.text[Region(ph)]

\* one pass of the loop body of generate_document for placeholder i
GenBody(acc, ph, i, r) ==
    IF GenSkips(r) THEN acc
    ELSE IF ph.page >= acc.npages
    THEN [acc EXCEPT !.status = "500", !.failedAt = i]
    ELSE
      LET clean == CleanRect(ph.rect)
          eff == EffectiveStyle(ph.style, ReplacementStyle(r))
          kept == [acc EXCEPT !.tmpl[i].style = StyleAfterMerge(ph.style, eff)]
          bg == DictGet(eff, "background_color", "#FFFFFF")
          bgw == DictGet(eff, "background_width", None)
          bgh == DictGet(eff, "background_height", None)
          bg_opacity == DictGet(eff, "background_opacity", QInt(1))
          del == WidgetsToDelete(acc.widgets, ph.page, clean)
          insert == IF r.content_type = "image"
                    THEN Event("insert_image", i, ph.rect, eff)
                    ELSE Event("insert_text", i, ph.rect, eff)
      IN IF HexToRgbRaises(bg)
         THEN [kept EXCEPT !.status = "500", !.failedAt = i]
         ELSE [kept EXCEPT
                 !.widgets = @ \ del,
                 !.log = @ \o DeleteEvents(del, i)
                           \o <<Event("redact", i, clean, bg)>>
                           \o (IF Truthy(bgw) \/ Truthy(bgh)
                               THEN <<Event("bg_shape", i, BgRect(ph.rect, clean, bgw, bgh),
                                           [fill |-> bg, fill_opacity |-> bg_opacity])>>
                               ELSE <<>>)
                           \o <<insert>>,
                 !.text[Region(ph)] = IF r.content_type = "image" THEN "" ELSE r.value,
                 !.count = @ + 1]

\* apply_template_to_document skips a placeholder whose page is not in the target
ApplySkipsPageOffByOne(ph, npages) == ph.page > npages
ApplySkipsPage(ph, npages) == ph.page >= npages

\* detection is asked for by the request alone, not by the replacement
DetectsOnlyReplaced(detect, r) == detect /\ r.value # ""
Detects(detect, r) == detect

\* one pass of the loop body of apply_template_to_document for placeholder i
ApplyBody(acc, ph, i, r, detect) ==
    IF ApplySkipsPage(ph, acc.npages) THEN acc
    ELSE
      LET acc1 == IF Detects(detect, r)
                  THEN [acc EXCEPT
                          !.log = @ \o <<Event("detect", i, ph.rect, TextAt(acc, ph))>>,
                          !.detected = DictUpdate(@, [l \in {ph.label} |-> TextAt(acc, ph)])]
                  ELSE acc
          clean == CleanRect(ph.rect)
          eff == IF ph.style = NoStyle THEN EmptyDict ELSE ph.style[1]
          bg == DictGet(eff, "background_color", "#FFFFFF")
          del == WidgetsToDelete(acc.widgets, ph.page, clean)
      IN IF r.value = "" THEN acc1
         ELSE IF HexToRgbRaises(bg)
         THEN [acc1 EXCEPT !.status = "500", !.failedAt = i]
         ELSE [acc1 EXCEPT
                 !.widgets = @ \ del,
                 !.log = @ \o DeleteEvents(del, i)
                           \o <<Event("redact", i, clean, bg)>>
                           \o <<Event("insert_text", i, ph.rect, eff)>>,
                 !.text[Region(ph)] = r.value,
                 !.count = @ + 1]

\* the marker of detect_text_at_template_positions for a page the target lacks
PageNotFound(p) == "[Page " \o ToString(p) \o " not found]"

\* one pass of the loop body of detect_text_at_template_positions
\* (PreviewBodySkipping: a page the target lacks passed over, as apply does)
PreviewBodySkipping(acc, ph, i) ==
    IF ph.page >= acc.npages
    THEN acc
    ELSE [acc EXCEPT
            !.log = @ \o <<Event("detect", i, ph.rect, TextAt(acc, ph))>>,
            !.detected = DictUpdate(@, [l \in {ph.label} |-> TextAt(acc, ph)])]
PreviewBody(acc, ph, i) ==
    IF ph.page >= acc.npages
    THEN [acc EXCEPT !.detected = DictUpdate(@, [l \in {ph.label} |-> PageNotFound(ph.page)])]
    ELSE [acc EXCEPT
            !.log = @ \o <<Event("detect", i, ph.rect, TextAt(acc, ph))>>,
            !.detected = DictUpdate(@, [l \in {ph.label} |-> TextAt(acc, ph)])]

RECURSIVE Loop(_, _, _, _, _, _)
Loop(mode, acc, phs, repl, detect, i) ==
    IF i > Len(phs) \/ acc.status # "running" THEN acc
    ELSE LET ph == phs[i]
             r == IF ph.label \in DOMAIN repl THEN repl[ph.label] ELSE StrRepl("")
             next == IF mode = "generate" THEN GenBody(acc, ph, i, r)
                     ELSE IF mode = "apply" THEN ApplyBody(acc, ph, i, r, detect)
                     ELSE PreviewBody(acc, ph, i)
         IN Loop(mode, next, phs, repl, detect, i + 1)

\* the state of a handler before fitz.open
Start(phs, doc) ==
    [status |-> "running", failedAt |-> 0, log |-> <<>>, count |-> 0,
     npages |-> doc.npages, widgets |-> doc.widgets,
     text |-> [g \in (0..(doc.npages - 1)) \X Rects |-> doc.text],
     tmpl |-> phs, detected |-> EmptyDict, returned |-> None]

Opened(acc) == [acc EXCEPT !.log = @ \o <<Event("open", 0, NoRect, SourcePath)>>]

\* the truth value of an opened document in "if doc:": the document has a
\* length (its page count) and no truth value of its own, so it is its length
DocTruthy(acc) == acc.npages > 0

\* the finally clause: if doc: doc.close()
Finally(acc) ==
    IF DocTruthy(acc) THEN [acc EXCEPT !.log = @ \o <<Event("close", 0, NoRect, "")>>]
    ELSE acc

\* doc.save to the output path, which may fail and does fail for a document
\* without pages, and the return that follows it
Save(mode, acc, detect, doc) ==
    IF doc.save_fails \/ acc.npages = 0
    THEN [acc EXCEPT !.status = "500", !.failedAt = Len(acc.tmpl) + 1]
    ELSE [acc EXCEPT !.status = "ok",
                     !.log = @ \o <<Event("save", 0, NoRect, OutputPath)>>,
                     !.returned = IF mode = "apply" /\ detect THEN <<acc.detected>>
                                  ELSE None]

\* generate_document and apply_template_to_document after the record lookups:
\* validation, open, loop, save, close
Handle(mode, phs, repl, detect, doc) ==
    IF MissingLabels(phs, repl) # {}
    THEN [Start(phs, doc) EXCEPT !.status = "400"]
    ELSE LET done == Loop(mode, Opened(Start(phs, doc)), phs, repl, detect, 1)
         IN Finally(IF done.status = "running" THEN Save(mode, done, detect, doc)
                    ELSE done)

\* detect_text_at_template_positions after the record lookups
HandlePreview(phs, doc) ==
    LET done == Loop("preview", Opened(Start(phs, doc)), phs, EmptyDict, TRUE, 1)
    IN Finally([done EXCEPT !.status = "ok", !.returned = <<done.detected>>])

\* detect_text_in_area after the record lookups
HandleArea(req, doc) ==
    LET opened == Opened(Start(<<>>, doc))
    IN Finally(
         IF req.page < 0 \/ req.page >= doc.npages
         THEN [opened EXCEPT !.status = "400"]
         ELSE IF req.rect.x1 - req.rect.x0 < 1 \/ req.rect.y1 - req.rect.y0 < 1
         THEN [opened EXCEPT !.status = "400"]
         ELSE [opened EXCEPT
                 !.status = "ok",
                 !.log = @ \o <<Event("detect", 0, req.rect,
                                      opened.text[<<req.page, req.rect>>])>>])

NoRequest == [page |-> 0, rect |-> NoRect]
Run(mode, repl, detect, doc, req, out) ==
    [mode |-> mode, repl |-> repl, detect |-> detect, doc |-> doc, req |-> req,
     out |-> out]

Idle ==
    Run("idle", EmptyDict, FALSE, DocPlain(1), NoRequest,
        [Start(<<>>, DocPlain(1)) EXCEPT !.status = "idle"])

Init ==
    /\ tmpl \in {phs \in SeqsUpTo(Placeholders, MaxPlaceholders) :
                   /\ UniqueLabels(phs)
                   /\ \A i \in 1..Len(phs) : phs[i].label = i}
    /\ run = Idle
    /\ page = NoPage
    /\ det = NoDetection
    /\ call = NoCall
    /\ drawn = NoDraws

\* the placeholder records are what the handler leaves of them
GenerateDocument ==
    /\ run.mode = "idle"
    /\ \E repl \in ReplacementMaps(GenReplacements), doc \in Docs :
        /\ run' = Run("generate", repl, FALSE, doc, NoRequest,
                      Handle("generate", tmpl, repl, FALSE, doc))
        /\ tmpl' = run'.out.tmpl
        /\ UNCHANGED <<page, det, call, drawn>>

ApplyTemplateToDocument ==
    /\ run.mode = "idle"
    /\ \E repl \in ReplacementMaps(ApplyReplacements), doc \in Docs, detect \in BOOLEAN :
        /\ run' = Run("apply", repl, detect, doc, NoRequest,
                      Handle("apply", tmpl, repl, detect, doc))
        /\ tmpl' = run'.out.tmpl
        /\ UNCHANGED <<page, det, call, drawn>>

DetectTextAtTemplatePositions ==
    /\ run.mode = "idle"
    /\ \E doc \in Docs :
        /\ run' = Run("preview", EmptyDict, TRUE, doc, NoRequest, HandlePreview(tmpl, doc))
        /\ UNCHANGED <<tmpl, page, det, call, drawn>>

DetectTextInArea ==
    /\ run.mode = "idle"
    /\ \E doc \in Docs, req \in AreaRequests :
        /\ run' = Run("area", EmptyDict, TRUE, doc, req, HandleArea(req, doc))
        /\ UNCHANGED <<tmpl, page, det, call, drawn>>

\* the response has reached the caller: the service is ready for the next request
Respond ==
    /\ run.mode # "idle"
    /\ run' = Idle
    /\ UNCHANGED <<tmpl, page, det, call, drawn>>

Next ==
    \/ GenerateDocument
    \/ ApplyTemplateToDocument
    \/ DetectTextAtTemplatePositions
    \/ DetectTextInArea
    \/ Respond

Spec == Init /\ [][Next]_vars

(***************************************************************************)
(* The detector on its own: detect_text applied to a page and rectangle.   *)
(***************************************************************************)
InitDetect ==
    /\ tmpl = <<>>
    /\ run = Idle
    /\ \/ PageByWidgets(page)
       \/ PageByLayout(page)
       \/ PageByWords(page)
       \/ PageByOcr(page)
       \/ PageByFault(page)
    /\ det = NoDetection
    /\ call = NoCall
    /\ drawn = NoDraws

DetectTextCall ==
    /\ det.source = "none"
    /\ det' = DetectText(page, page.rect)
    /\ UNCHANGED <<tmpl, run, page, call, drawn>>

\* the caller has taken the result
DetectTextReturn ==
    /\ det.source # "none"
    /\ det' = NoDetection
    /\ UNCHANGED <<tmpl, run, page, call, drawn>>

NextDetect == DetectTextCall \/ DetectTextReturn

SpecDetect == InitDetect /\ [][NextDetect]_vars

(***************************************************************************)
(* _insert_text on its own: calls drawn from small families of arguments.  *)
(***************************************************************************)
InsChars == {"a", " ", NL}
NewTexts == SeqsUpTo(InsChars, MaxTextLen)
FewTexts == {<<"a">>, <<"w", NL, "a">>, <<NL, "a">>}

\* style.font_size: unset, below the floor, plain, detected-like, above 72
FontSizes == {None, Some(QInt(3)), Some(QInt(10)), Some(Q(103, 10)), Some(QInt(80))}
StyleAt(fs) == PlaceholderStyle(fs, "#000000", "#FFFFFF", QInt(1), None, None)
InsertStyles == {NoStyle} \cup {<<StyleAt(fs)>> : fs \in FontSizes}

BoxWidths == {1, 2, 8, 200}
BoxHeights == {7, 20}
BoxAt(w, h) == Rect(100, 200, 100 + w, 200 + h)

\* the 80 pt style is asked of the wide box only, where the auto-fit loop is short
StylesFor(w) ==
    IF w = 200 THEN InsertStyles ELSE InsertStyles \ {<<StyleAt(Some(QInt(80)))>>}

\* the dump of a LineData, and a stored line that has only its required keys
LineData(text, baseline, y0, y1, size) ==
    [text |-> text, baseline |-> Some(baseline), y0 |-> y0, y1 |-> y1, size |-> size]
LineFull == LineData(<<"a">>, QInt(215), Some(QInt(205)), Some(QInt(218)), Some(QInt(12)))
LineDetected == LineData(<<"a">>, QInt(230), Some(QInt(220)), Some(QInt(233)), Some(Q(103, 10)))
LineUnset == LineData(<<"a">>, QInt(215), None, None, None)
LineBare == [text |-> <<"a">>, baseline |-> Some(QInt(215))]
LineSmall == LineData(<<"a">>, QInt(215), Some(QInt(208)), Some(QInt(217)), Some(QInt(8)))
PriorLines == {LineFull, LineDetected, LineUnset, LineBare, LineSmall}
FewPriorLists == {<<>>, <<LineFull>>, <<LineFull, LineDetected>>}

InsertCall(rect, new_text, lines_data, strict_match, style) ==
    [pending |-> TRUE, rect |-> rect, new_text |-> new_text, lines_data |-> lines_data,
     strict_match |-> strict_match, style |-> style]

CallByText(c) ==
    \E t \in NewTexts, ld \in FewPriorLists, w \in BoxWidths,
       sm \in BOOLEAN : \E st \in StylesFor(w) :
        c = InsertCall(BoxAt(w, 20), t, ld, sm, st)

CallByBox(c) ==
    \E t \in FewTexts, w \in BoxWidths, h \in BoxHeights : \E st \in StylesFor(w) :
        c = InsertCall(BoxAt(w, h), t, <<>>, FALSE, st)

CallByLines(c) ==
    \E t \in FewTexts, ld \in SeqsUpTo(PriorLines, MaxPriorLines), w \in BoxWidths,
       sm \in BOOLEAN : \E st \in StylesFor(w) :
        c = InsertCall(BoxAt(w, 20), t, ld, sm, st)

InitInsert ==
    /\ tmpl = <<>>
    /\ run = Idle
    /\ page = NoPage
    /\ det = NoDetection
    /\ CallByText(call) \/ CallByBox(call) \/ CallByLines(call)
    /\ drawn = NoDraws

InsertTextCall ==
    /\ call.pending
    /\ drawn.status = "none"
    /\ drawn' = InsertText(call.rect, call.new_text, call.lines_data,
                           call.strict_match, call.style)
    /\ UNCHANGED <<tmpl, run, page, det, call>>

\* the caller goes on to the next placeholder
InsertTextReturn ==
    /\ drawn.status # "none"
    /\ drawn' = NoDraws
    /\ UNCHANGED <<tmpl, run, page, det, call>>

NextInsert == InsertTextCall \/ InsertTextReturn

SpecInsert == InitInsert /\ [][NextInsert]_vars

(***************************************************************************)
(* Properties of the orchestrator.                                         *)
(***************************************************************************)
Ran(mode) == run.mode = mode
PhIndexes == 1..Len(tmpl)
EventsOf(i) == {k \in 1..Len(run.out.log) : run.out.log[k].ph = i}
OpsOf(i) == {run.out.log[k].op : k \in EventsOf(i)}
AllOps == {run.out.log[k].op : k \in 1..Len(run.out.log)}
HasKey(i) == tmpl[i].label \in DOMAIN run.repl
ValueOf(i) == run.repl[tmpl[i].label].value
InTarget(i) == tmpl[i].page < run.doc.npages

\* C1: in generate_document and apply_template_to_document, a template label
\* without a key in the replacements fails the run with the validation error
\* before anything happens: the document is not opened, no widget is deleted,
\* nothing is redacted or inserted and nothing is saved.
C1_MissingLabelFailsBeforeMutation ==
    (run.mode \in {"generate", "apply"} /\ \E i \in PhIndexes : ~HasKey(i))
        => /\ run.out.status = "400"
           /\ run.out.log = <<>>
           /\ run.out.count = 0
           /\ run.out.widgets = run.doc.widgets
           /\ run.out.detected = EmptyDict

C1_Witness ==
    /\ Ran("generate")
    /\ \E i, j \in PhIndexes : HasKey(i) /\ ValueOf(i) # "" /\ ~HasKey(j)
    /\ run.doc.widgets # {}
    /\ run.out.status = "400"

\* C2: when generate_document returns, replacedCount is the number of
\* placeholders whose resolved replacement value is non-empty, and a placeholder
\* with an empty value saw no widget deletion, no redaction and no insert.
C2_ReplacedCountIsNonEmptyValues ==
    (Ran("generate") /\ run.out.status = "ok")
        => /\ \A i \in PhIndexes : HasKey(i)
           /\ run.out.count = Cardinality({i \in PhIndexes : ValueOf(i) # ""})
           /\ \A i \in PhIndexes : ValueOf(i) = "" => EventsOf(i) = {}

C2_Witness ==
    /\ Ran("generate")
    /\ run.out.status = "ok"
    /\ Len(tmpl) = MaxPlaceholders
    /\ \E i, j \in PhIndexes : ValueOf(i) = "" /\ ValueOf(j) # ""
    /\ run.out.count = Cardinality({i \in PhIndexes : ValueOf(i) # ""})
    /\ run.out.count = Len(tmpl) - 1

\* C3: in apply_template_to_document a placeholder whose page index is not a
\* page of the target is skipped without raising: nothing is detected, deleted,
\* redacted or inserted for it, the run never fails at it, the placeholders
\* after it are processed, a run that fails nowhere else saves its output, and
\* replacedCount counts only the placeholders in the target with a value.
C3_MissingPageIsSkipped ==
    (Ran("apply") /\ \A i \in PhIndexes : HasKey(i))
        => /\ \A i \in PhIndexes : ~InTarget(i) => EventsOf(i) = {}
           /\ run.out.status \in {"ok", "500"}
           /\ (run.out.status = "500" /\ run.out.failedAt \in PhIndexes)
                => /\ InTarget(run.out.failedAt)
                   /\ ValueOf(run.out.failedAt) # ""
           /\ \A j \in PhIndexes :
                (/\ InTarget(j) /\ ValueOf(j) # ""
                 /\ (run.out.status = "ok" \/ j < run.out.failedAt))
                    => "insert_text" \in OpsOf(j)
           /\ run.out.status = "ok"
                => /\ "save" \in AllOps
                   /\ run.out.count =
                        Cardinality({i \in PhIndexes : InTarget(i) /\ ValueOf(i) # ""})

C3_Witness ==
    /\ Ran("apply")
    /\ run.out.status = "ok"
    /\ "save" \in AllOps
    /\ \E i, j \in PhIndexes :
          /\ i < j
          /\ ~InTarget(i) /\ ValueOf(i) # "" /\ EventsOf(i) = {}
          /\ InTarget(j) /\ "insert_text" \in OpsOf(j)
    /\ run.out.count = 1

(***************************************************************************)
(* Properties of the detector.                                             *)
(***************************************************************************)
Detected == det.source \notin {"none", "raised"}
LineTexts == [i \in 1..Len(det.lines) |-> det.lines[i].text]

WidgetHits ==
    {i \in 1..Len(page.widgets) :
        Intersects(page.widgets[i].rect, page.rect) /\ page.widgets[i].value # <<>>}
LayoutHasText ==
    \E i \in 1..Len(page.dict) : Strip(Join(page.dict[i].spans, " ")) # <<>>
OcrHasText == page.ocr_available /\ Strip(page.ocr) # <<>>

\* C4: detect_text tries Form Field, Precise Layout, Clustered Words, OCR (when
\* available) in this order and returns the first non-empty text tagged with its
\* strategy; a widget with a value that intersects the rectangle always gives
\* Form Field; nothing found gives Empty with empty text and no lines.
C4_StrategyPriority ==
    Detected =>
        /\ WidgetHits # {}
             => /\ det.source = "Form Field"
                /\ det.text = page.widgets[MinOf(WidgetHits)].value
        /\ (WidgetHits = {} /\ LayoutHasText) => det.source = "Precise Layout"
        /\ (WidgetHits = {} /\ ~LayoutHasText /\ page.words # <<>>)
             => det.source = "Clustered Words"
        /\ (WidgetHits = {} /\ ~LayoutHasText /\ page.words = <<>> /\ OcrHasText)
             => /\ det.source = "OCR"
                /\ det.text = Strip(page.ocr)
        /\ (WidgetHits = {} /\ ~LayoutHasText /\ page.words = <<>> /\ ~OcrHasText)
             => /\ det.source = "Empty"
                /\ det.text = <<>>
                /\ det.lines = <<>>
        /\ det.source # "Empty" => det.text # <<>>

C4_Witness ==
    /\ det.source = "Form Field"
    /\ Len(page.widgets) = MaxWidgets
    /\ MinOf(WidgetHits) = MaxWidgets
    /\ LayoutHasText
    /\ page.words # <<>>
    /\ OcrHasText

\* C5: the text of every detect_text result is the newline-join of its lines'
\* texts, and an empty text comes with source Empty and no lines.
C5_TextIsJoinOfLines ==
    Detected =>
        /\ det.text = Join(LineTexts, NL)
        /\ det.text = <<>> => (det.source = "Empty" /\ det.lines = <<>>)

\* C6: the lines of every detect_text result are ordered top to bottom by y0
\* (by baseline where a line has no y0).
C6_LinesTopToBottom ==
    Detected =>
        \A i \in 1..(Len(det.lines) - 1) :
            QLe(LineTop(det.lines[i]), LineTop(det.lines[i + 1]))

\* the words of the page by index, and where the detector put them
WordIndexes == 1..Len(page.words)
LineOf(i) ==
    CHOOSE k \in 1..Len(det.lines) : page.words[i].text[1] \in Range(det.lines[k].text)
InSomeLine(i) ==
    \E k \in 1..Len(det.lines) : page.words[i].text[1] \in Range(det.lines[k].text)
\* the first-seen word of each output line
FirstSeen == {i \in WordIndexes : \A j \in WordIndexes : LineOf(j) = LineOf(i) => i <= j}
CentersApart2(i, j) == Abs(Center2(page.words[i]) - Center2(page.words[j]))
Clustered == det.source = "Clustered Words"

\* C7 as stated: any two words whose vertical centers differ by less than 5 end
\* up in the same output line.
C7_NearWordsShareLine ==
    Clustered =>
        \A i, j \in WordIndexes :
            CentersApart2(i, j) < 2 * Tolerance => LineOf(i) = LineOf(j)

\* C7 amended: a word whose center is less than 5 from the first-seen word of a
\* line opened before it joins the earliest such line and opens no line itself.
C7_JoinsEarliestNearLine ==
    Clustered =>
        \A j \in WordIndexes :
            LET near == {f \in FirstSeen : f < j /\ CentersApart2(f, j) < 2 * Tolerance}
            IN near # {} => (LineOf(j) = LineOf(MinOf(near)) /\ j \notin FirstSeen)

C7_Witness ==
    /\ Clustered
    /\ Len(page.words) = MaxWords
    /\ \E f \in FirstSeen, j \in WordIndexes :
          /\ f < j /\ CentersApart2(f, j) < 2 * Tolerance /\ CentersApart2(f, j) > Tolerance
          /\ LineOf(j) = LineOf(f)
    /\ \E i, j \in WordIndexes :
          CentersApart2(i, j) < 2 * Tolerance /\ LineOf(i) # LineOf(j)

\* C8 as stated: two words whose vertical centers differ by 5 or more are never
\* in the same output line.
C8_FarWordsNeverShareLine ==
    Clustered =>
        \A i, j \in WordIndexes :
            CentersApart2(i, j) >= 2 * Tolerance => LineOf(i) # LineOf(j)

\* C8 amended: a word is never in a line whose first-seen word is 5 or more
\* away from it (two later members of one line may be up to 10 apart).
C8_NeverFarFromFirstSeen ==
    Clustered =>
        \A f \in FirstSeen, j \in WordIndexes :
            CentersApart2(f, j) >= 2 * Tolerance => LineOf(j) # LineOf(f)

C8_Witness ==
    /\ Clustered
    /\ Len(page.words) = MaxWords
    /\ \E f \in FirstSeen, i, j \in WordIndexes :
          /\ f < i /\ LineOf(i) = LineOf(f)
          /\ CentersApart2(f, j) = 2 * Tolerance /\ LineOf(j) # LineOf(f)
          /\ CentersApart2(i, j) < 2 * Tolerance

(***************************************************************************)
(* Properties of _insert_text.                                             *)
(***************************************************************************)
Draws == {drawn.draws[k] : k \in 1..Len(drawn.draws)}
CallPadding ==
    IF call.style = NoStyle THEN QInt(1) ELSE DictGet(call.style[1], "padding", QInt(1))
FitsAtCandidate(d) ==
    QLe(MeasureTextWidth(d.text, d.fontname, d.original_fontsize),
        AvailableWidth(call.rect, CallPadding))

\* C9: every line is drawn at a font size of at least 4, whatever the
\* starting size, the text and the width of the rectangle.
C9_DrawnSizeNeverBelow4 ==
    \A d \in Draws : QLe(QInt(4), d.fontsize)

\* C10: a line whose width at the clamped candidate size does not exceed
\* rect.width - 2 * padding (equality included) is drawn at that size.
C10_FittingLineKeepsSize ==
    \A d \in Draws : FitsAtCandidate(d) => d.fontsize = d.original_fontsize

NewLines == Split(call.new_text, NL)
LineIndexes == 0..(Len(NewLines) - 1)
NonBlank(i) == Strip(NewLines[i + 1]) # <<>>
Inserted == drawn.status # "none"
WithinPrior(i) == i < Len(call.lines_data)

\* C11: with strict_match and prior lines, every non-blank new line whose
\* index is within the prior line count is drawn, at the baseline of the prior
\* entry of the same index.
C11_StrictKeepsPriorBaseline ==
    (Inserted /\ call.strict_match) =>
        \A i \in LineIndexes :
            (WithinPrior(i) /\ NonBlank(i)) =>
                \E d \in Draws :
                    d.line = i /\ d.baseline = call.lines_data[i + 1].baseline[1]

\* C12: an exception inside one strategy counts as that strategy finding no
\* text: detect_text never raises and returns what the remaining strategies
\* give.
C12_StrategyFailureFallsThrough ==
    det.source # "none" =>
        /\ det.source # "raised"
        /\ det = DetectText([page EXCEPT !.raises = "none"], page.rect)

(***************************************************************************)
(* More properties of the orchestrator.                                    *)
(***************************************************************************)
StyleKeys == DOMAIN StyleDefault
InsertOps == {"insert_text", "insert_image"}
InsertsOf(i) == {k \in EventsOf(i) : run.out.log[k].op \in InsertOps}
SentStyle(i) ==
    LET r == run.repl[tmpl[i].label]
    IN IF r.style = NoStyle THEN EmptyDict ELSE r.style[1]
DefaultStyleOf(i) == IF tmpl[i].style = NoStyle THEN EmptyDict ELSE tmpl[i].style[1]

\* the field-wise merge: the override's value for a field the caller set, else
\* the placeholder's value, else the default of the style schema
MergedField(i, k) ==
    IF k \in DOMAIN SentStyle(i) THEN SentStyle(i)[k]
    ELSE DictGet(DefaultStyleOf(i), k, StyleDefault[k])

\* C13: the effective style of generate_document is the field-wise merge of
\* the placeholder's style and the replacement's override; a field the
\* override does not set keeps the placeholder's value.
C13_StyleMergeIsFieldWise ==
    Ran("generate") =>
        \A i \in PhIndexes : \A e \in InsertsOf(i) : \A k \in StyleKeys :
            DictGet(run.out.log[e].arg, k, StyleDefault[k]) = MergedField(i, k)

\* the paths the documents of the run were saved to
SavedPaths == {run.out.log[k].arg : k \in {j \in 1..Len(run.out.log) : run.out.log[j].op = "save"}}
SavedPathsAfter == {run'.out.log[k].arg : k \in {j \in 1..Len(run'.out.log) : run'.out.log[j].op = "save"}}

\* C14: a generation or apply run leaves its inputs as they were: every
\* placeholder record of the template is the same after the run as before it,
\* whether the run succeeded or failed and whether or not an override was
\* merged into a placeholder's style, and nothing is saved to the path of the
\* source document.
C14_RunKeepsItsInputs ==
    [][run'.mode \in {"generate", "apply"}
          => /\ tmpl' = tmpl
             /\ SourcePath \notin SavedPathsAfter]_vars

\* a successful generation that merged an override into a placeholder that has
\* a default style of its own: the inserted style differs from the default one
C14_Witness ==
    /\ Ran("generate")
    /\ run.out.status = "ok"
    /\ SavedPaths = {OutputPath}
    /\ \E i \in PhIndexes :
          /\ tmpl[i].style # NoStyle
          /\ run.repl[tmpl[i].label].style # NoStyle
          /\ \E e \in InsertsOf(i) : run.out.log[e].arg # tmpl[i].style[1]

Opens == {k \in 1..Len(run.out.log) : run.out.log[k].op = "open"}
Closes == {k \in 1..Len(run.out.log) : run.out.log[k].op = "close"}

\* C15: in generate_document, apply_template_to_document,
\* detect_text_at_template_positions and detect_text_in_area a document that
\* was opened is closed exactly once, as the last step before the result or
\* the error reaches the caller, on every way out of the handler.
C15_OpenedHandleClosedOnce ==
    (run.mode # "idle" /\ Opens # {}) =>
        /\ Cardinality(Opens) = 1
        /\ Closes = {Len(run.out.log)}

\* the same, for the documents that have at least one page
C15_ClosedOnceWithPages ==
    (run.mode # "idle" /\ Opens # {} /\ run.doc.npages > 0) =>
        /\ Cardinality(Opens) = 1
        /\ Closes = {Len(run.out.log)}

OfOp(i, op) == {k \in EventsOf(i) : run.out.log[k].op = op}
Expanded(r) == Rect(r.x0 - 2, r.y0 - 2, r.x1 + 2, r.y1 + 2)
CustomBackground(st) ==
    \/ Truthy(DictGet(st, "background_width", None))
    \/ Truthy(DictGet(st, "background_height", None))

\* the steps of one placeholder, in their order, each at most once
StepsInOrder(i) ==
    /\ EventsOf(i) = OfOp(i, "delete_widget") \cup OfOp(i, "redact")
                        \cup OfOp(i, "bg_shape") \cup InsertsOf(i)
    /\ Cardinality(OfOp(i, "redact")) <= 1
    /\ Cardinality(OfOp(i, "bg_shape")) <= 1
    /\ Cardinality(InsertsOf(i)) <= 1
    /\ \A d \in OfOp(i, "delete_widget") : \E r \in OfOp(i, "redact") : d < r
    /\ \A r \in OfOp(i, "redact") : run.out.log[r].rect = Expanded(tmpl[i].rect)
    /\ \A b \in OfOp(i, "bg_shape") : \E r \in OfOp(i, "redact") : r < b
    /\ \A n \in InsertsOf(i) :
          /\ run.out.log[n].rect = tmpl[i].rect
          /\ \E r \in OfOp(i, "redact") : r < n
          /\ \A b \in OfOp(i, "bg_shape") : b < n
          /\ OfOp(i, "bg_shape") # {} <=> CustomBackground(run.out.log[n].arg)

\* C16: in generate_document the placeholders are processed in the template's
\* order; the steps of a placeholder are, each at most once and in this order,
\* the deletion of the intersecting widgets, the redaction of the rectangle
\* expanded by 2 on every side, the custom background if the effective style
\* asks for one, and one insert at the placeholder's rectangle; the save comes
\* after the steps of the last placeholder; and in a run that returns, every
\* placeholder with a non-empty value has exactly one redaction and one insert
\* and replacedCount counts them, so a single placeholder with a value gives
\* one erased and inserted region and replacedCount = 1.
C16_StepsInOrder ==
    Ran("generate") =>
        /\ \A i \in PhIndexes : StepsInOrder(i)
        /\ \A i, j \in PhIndexes :
              i < j => \A a \in EventsOf(i), b \in EventsOf(j) : a < b
        /\ \A s \in OfOp(0, "save") : \A i \in PhIndexes : \A a \in EventsOf(i) : a < s
        /\ run.out.status = "ok" =>
              /\ \A i \in PhIndexes :
                    ValueOf(i) # "" =>
                        /\ Cardinality(OfOp(i, "redact")) = 1
                        /\ Cardinality(InsertsOf(i)) = 1
              /\ run.out.count = Cardinality({i \in PhIndexes : InsertsOf(i) # {}})
              /\ Cardinality(OfOp(0, "save")) = 1

\* a run over two placeholders with values: a widget was deleted for one, a
\* custom background was drawn for one, and the result was saved
C16_Witness ==
    /\ Ran("generate")
    /\ run.out.status = "ok"
    /\ Len(tmpl) = 2
    /\ run.out.count = 2
    /\ \E i \in PhIndexes : OfOp(i, "delete_widget") # {}
    /\ \E i \in PhIndexes : OfOp(i, "bg_shape") # {}
    /\ OfOp(0, "save") # {}

LabelsOf(ixs) == {tmpl[i].label : i \in ixs}
DetectorRuns == {k \in 1..Len(run.out.log) : run.out.log[k].op = "detect"}
ReturnedNothing == run.out.returned = None /\ DetectorRuns = {}

LastWith(ixs, l) ==
    CHOOSE i \in ixs : tmpl[i].label = l /\ \A j \in ixs : tmpl[j].label = l => j <= i

\* the returned values hold, for each placeholder of ixs and for no other
\* label, the text the detector returned at that placeholder (at the last one
\* visited, should two carry the same label)
ReturnedFor(ixs) ==
    /\ run.out.returned # None
    /\ DOMAIN run.out.returned[1] = LabelsOf(ixs)
    /\ \A i \in ixs : Cardinality(OfOp(i, "detect")) = 1
    /\ \A l \in LabelsOf(ixs) :
          \A e \in OfOp(LastWith(ixs, l), "detect") :
              run.out.returned[1][l] = run.out.log[e].arg

\* C17 as stated: an apply run with detect_and_replace returns the detector's
\* text for every placeholder label of the template, empty replacement or
\* not; without detect_and_replace it returns no values and never detects.
C17_DetectedForEveryLabel ==
    (Ran("apply") /\ run.out.status = "ok") =>
        IF run.detect THEN ReturnedFor(PhIndexes) ELSE ReturnedNothing

\* C17 amended: the returned values hold the detector's text for every
\* placeholder whose page is a page of the target, empty replacement or not,
\* and no entry for a placeholder whose page the target lacks; without
\* detect_and_replace no values are returned and the detector never runs.
C17_DetectedForEveryLabelInTarget ==
    (Ran("apply") /\ run.out.status = "ok") =>
        IF run.detect THEN ReturnedFor({i \in PhIndexes : InTarget(i)})
        ELSE ReturnedNothing

\* a detecting run that returned a value for a placeholder with an empty
\* replacement and none for a placeholder outside the target
C17_Witness ==
    /\ Ran("apply")
    /\ run.out.status = "ok"
    /\ run.detect
    /\ run.out.returned # None
    /\ \E i, j \in PhIndexes :
          /\ InTarget(i) /\ ValueOf(i) = ""
          /\ tmpl[i].label \in DOMAIN run.out.returned[1]
          /\ InsertsOf(i) = {}
          /\ ~InTarget(j)
          /\ tmpl[j].label \notin DOMAIN run.out.returned[1]

(***************************************************************************)
(* create_template and update_template: here tmpl holds the placeholder    *)
(* rows of one template, each with the id the table gives it.              *)
(***************************************************************************)
PlaceholderIds == 1..MaxRows

\* a PlaceholderCreate of a request, and the row made of it
PlaceholderCreates == [label : Labels, page : 0..MaxPages]
PlaceholderRow(id, p) ==
    [id |-> id, label |-> p.label, page |-> p.page, rect |-> RectA,
     style |-> NoStyle, content_type |-> "text"]

\* uuid4: an id that no row holds
FreshId(rows) ==
    CHOOSE n \in 1..(Len(rows) + 1) : \A i \in 1..Len(rows) : rows[i].id # n

\* one row is added per PlaceholderCreate, in the order of the request
RECURSIVE AddPlaceholders(_, _)
AddPlaceholders(rows, ps) ==
    IF ps = <<>> THEN rows
    ELSE AddPlaceholders(Append(rows, PlaceholderRow(FreshId(rows), Head(ps))), Tail(ps))

\* create_template: duplicate labels in the request are refused with 400
CreateRejects(ps) == ~UniqueLabels(ps)
CreatedRows(ps) == AddPlaceholders(<<>>, ps)

\* a PlaceholderUpdate: the id of the row and the new label, if any
PlaceholderUpdates == [id : PlaceholderIds, label : {None} \cup {<<l>> : l \in Labels}]
TemplateUpdates ==
    [remove_placeholder_ids : SUBSET PlaceholderIds,
     placeholders : SeqsUpTo(PlaceholderUpdates, 1),
     add_placeholders : SeqsUpTo(PlaceholderCreates, 1)]

RemovePlaceholders(rows, ids) == SelectSeq(rows, LAMBDA r : r.id \notin ids)

UpdateRow(r, u) ==
    IF r.id = u.id /\ u.label # None THEN [r EXCEPT !.label = u.label[1]] ELSE r

RECURSIVE UpdatePlaceholders(_, _)
UpdatePlaceholders(rows, us) ==
    IF us = <<>> THEN rows
    ELSE UpdatePlaceholders([i \in 1..Len(rows) |-> UpdateRow(rows[i], Head(us))], Tail(us))

\* update_template at its commit: the rows marked for removal are gone, the
\* named rows carry their new labels, the new rows are added
UpdatedRows(rows, req) ==
    AddPlaceholders(
        UpdatePlaceholders(RemovePlaceholders(rows, req.remove_placeholder_ids),
                           req.placeholders),
        req.add_placeholders)

InitTemplates ==
    /\ tmpl = <<>>
    /\ run = Idle
    /\ page = NoPage
    /\ det = NoDetection
    /\ call = NoCall
    /\ drawn = NoDraws

CreateTemplate ==
    /\ \E ps \in SeqsUpTo(PlaceholderCreates, MaxPlaceholders) :
          tmpl' = IF CreateRejects(ps) THEN tmpl ELSE CreatedRows(ps)
    /\ UNCHANGED <<run, page, det, call, drawn>>

UpdateTemplate ==
    /\ \E req \in TemplateUpdates :
          /\ Len(UpdatedRows(tmpl, req)) <= MaxRows
          /\ tmpl' = UpdatedRows(tmpl, req)
    /\ UNCHANGED <<run, page, det, call, drawn>>

NextTemplates ==
    \/ CreateTemplate
    \/ UpdateTemplate

SpecTemplates == InitTemplates /\ [][NextTemplates]_vars

\* C18: the labels of the placeholders of a template are unique in every
\* reachable state, after any sequence of create_template and update_template
\* calls.
C18_LabelsUniqueInTemplate == UniqueLabels(tmpl)

\* what create_template alone keeps: a template that no update has touched
\* holds no two placeholders with the same label
C18_CreatedLabelsUnique == [][CreateTemplate => UniqueLabels(tmpl')]_vars

MutatingOps == {"delete_widget", "redact", "bg_shape", "insert_text", "insert_image"}
Mutations == {k \in 1..Len(run.out.log) : run.out.log[k].op \in MutatingOps}

\* every value the detector returned is the content the target had before the run
DetectsOriginalContent == \A e \in DetectorRuns : run.out.log[e].arg = run.doc.text

\* C19: an apply run with detect_and_replace runs the detector at every
\* placeholder in the target before the labels are validated and before
\* anything is erased or inserted, so every detected value is the original
\* content of the target and never what the run wrote for an earlier
\* placeholder.
C19_DetectionPrecedesMutation ==
    (Ran("apply") /\ run.detect) =>
        /\ \A i \in PhIndexes : InTarget(i) => OfOp(i, "detect") # {}
        /\ \A e \in DetectorRuns : \A m \in Mutations : e < m
        /\ DetectsOriginalContent

\* the detected values alone, in the runs whose labels all have a replacement
C19_DetectedValuesAreOriginal ==
    (Ran("apply") /\ run.detect /\ \A i \in PhIndexes : HasKey(i))
        => DetectsOriginalContent

\* C20: the font size chosen for a line before the auto-fit is within
\* [4, 72], whatever size the style asks for and whatever size the prior line
\* data records.
C20_CandidateSizeWithin4And72 ==
    \A d \in Draws :
        /\ QLe(QInt(4), d.original_fontsize)
        /\ QLe(d.original_fontsize, QInt(72))

\* the floor alone
C20_CandidateSizeAtLeast4 == \A d \in Draws : QLe(QInt(4), d.original_fontsize)

(***************************************************************************)
(* More properties of _insert_text.                                        *)
(***************************************************************************)
PriorCount == Len(call.lines_data)
BeyondPrior == {d \in Draws : PriorCount > 0 /\ d.line >= PriorCount}
LastBaseline == call.lines_data[PriorCount].baseline[1]

\* the distance of a line beyond the prior ones from the last prior baseline,
\* and the number of pitches it stands for
Advance(d) == QSub(d.baseline, LastBaseline)
Steps(d) == d.line - PriorCount + 1

\* C21: a line beyond the prior lines is placed at the last prior baseline
\* plus (i - priorCount + 1) pitches, and the pitch is at least 12 even when
\* the average deduced from the prior lines is smaller.
C21_PitchAtLeast12 ==
    \A d \in BeyondPrior : QLe(QInt(12 * Steps(d)), Advance(d))

\* the pitch is positive
C21_PitchPositive ==
    \A d \in BeyondPrior : QLt(QInt(0), Advance(d))

(***************************************************************************)
(* More properties of generate_document.                                   *)
(***************************************************************************)
Width(r) == r.x1 - r.x0
Height(r) == r.y1 - r.y0
RequestedWidth(st) == DictGet(st, "background_width", None)
RequestedHeight(st) == DictGet(st, "background_height", None)

\* the shape b of placeholder i is anchored at the top left corner of the
\* placeholder, has the requested sizes and the background opacity of st
AnchoredAndSized(i, b, st) ==
    /\ run.out.log[b].rect.x0 = tmpl[i].rect.x0
    /\ run.out.log[b].rect.y0 = tmpl[i].rect.y0
    /\ Truthy(RequestedWidth(st)) => Width(run.out.log[b].rect) = Whole(RequestedWidth(st))
    /\ Truthy(RequestedHeight(st)) => Height(run.out.log[b].rect) = Whole(RequestedHeight(st))
    /\ run.out.log[b].arg.fill_opacity = DictGet(st, "background_opacity", QInt(1))

\* C22: in generate_document the secondary background shape, painted when the
\* effective style sets a background width and/or height, is anchored at the
\* top left corner of the placeholder's rectangle, has the requested size and
\* is filled with the background opacity; with no custom size no shape is
\* painted and the redaction of the clean rectangle is all there is.
C22_ShapeAnchoredAtRect ==
    Ran("generate") =>
        \A i \in PhIndexes : \A n \in InsertsOf(i) :
            IF CustomBackground(run.out.log[n].arg)
            THEN \A b \in OfOp(i, "bg_shape") : AnchoredAndSized(i, b, run.out.log[n].arg)
            ELSE OfOp(i, "bg_shape") = {} /\ Cardinality(OfOp(i, "redact")) = 1

\* the same with both sizes set, or none
C22_ShapeAnchoredWhenBothSizes ==
    Ran("generate") =>
        \A i \in PhIndexes : \A n \in InsertsOf(i) :
            IF Truthy(RequestedWidth(run.out.log[n].arg))
                  /\ Truthy(RequestedHeight(run.out.log[n].arg))
            THEN /\ OfOp(i, "bg_shape") # {}
                 /\ \A b \in OfOp(i, "bg_shape") :
                        AnchoredAndSized(i, b, run.out.log[n].arg)
            ELSE CustomBackground(run.out.log[n].arg)
                 \/ (OfOp(i, "bg_shape") = {} /\ Cardinality(OfOp(i, "redact")) = 1)

NonBlankIndexes == {i \in LineIndexes : NonBlank(i)}
DrawsOfLine(i) == {k \in 1..Len(drawn.draws) : drawn.draws[k].line = i}

\* the k-th even slot of a box shared by n lines
EvenSlot(k, n) ==
    QAdd(QInt(call.rect.y0),
         QMul(Q(10 * k + 8, 10), Q(call.rect.y1 - call.rect.y0, n)))

\* C23: the new text is split on newline; a line that is blank after trimming
\* draws nothing but keeps its index, so the line at index k is positioned by
\* the prior entry at index k, or by the k-th even slot of all the lines when
\* there are no prior lines, and a call that returns has made one draw call
\* per non-blank line.
C23_BlankLinesKeepTheirIndex ==
    drawn.status = "ok" =>
        /\ Len(drawn.draws) = Cardinality(NonBlankIndexes)
        /\ \A i \in LineIndexes :
              Cardinality(DrawsOfLine(i)) = IF NonBlank(i) THEN 1 ELSE 0
        /\ \A d \in Draws :
              /\ WithinPrior(d.line) =>
                    d.baseline = call.lines_data[d.line + 1].baseline[1]
              /\ PriorCount = 0 => d.baseline = EvenSlot(d.line, Len(NewLines))

\* a blank first line, then a line drawn at the baseline of the second prior
\* entry, which is not that of the first
C23_Witness ==
    /\ drawn.status = "ok"
    /\ Len(NewLines) = 2
    /\ ~NonBlank(0) /\ NonBlank(1)
    /\ PriorCount = 2
    /\ call.lines_data[1].baseline # call.lines_data[2].baseline
    /\ \E d \in Draws : d.line = 1 /\ d.baseline = call.lines_data[2].baseline[1]
    /\ Len(drawn.draws) = 1

CallStyleDict == IF call.style = NoStyle THEN EmptyDict ELSE call.style[1]
CallFontSize == DictGet(CallStyleDict, "font_size", None)
Present(entry, key) == key \in DOMAIN entry /\ entry[key] # None
StoresNull(entry) == \E key \in DOMAIN entry : entry[key] = None

\* the size of a line drawn in strict mode from the prior entry: the explicit
\* size of the style, else the recorded size, else 10
StrictSize(entry) ==
    IF Truthy(CallFontSize) THEN CallFontSize[1]
    ELSE IF Present(entry, "size") THEN entry.size[1]
    ELSE QInt(10)

\* C24: prior line entries with absent optional fields, missing or stored as
\* null, do not make _insert_text raise: a line drawn in strict mode from its
\* prior entry has the style's explicit size, else the entry's size, else 10,
\* and the pitch is computed when y0 and y1 are absent.
C24_AbsentFieldsDoNotRaise ==
    Inserted =>
        /\ drawn.status = "ok"
        /\ \A d \in Draws :
              (call.strict_match /\ WithinPrior(d.line)) =>
                  d.original_fontsize =
                      ClampFontSize(StrictSize(call.lines_data[d.line + 1]), CallFontSize)

\* the same for the entries whose absent fields are missing keys
C24_MissingKeysDoNotRaise ==
    (Inserted /\ \A k \in 1..PriorCount : ~StoresNull(call.lines_data[k])) =>
        /\ drawn.status = "ok"
        /\ \A d \in Draws :
              (call.strict_match /\ WithinPrior(d.line)) =>
                  d.original_fontsize =
                      ClampFontSize(StrictSize(call.lines_data[d.line + 1]), CallFontSize)

(***************************************************************************)
(* The two modes compared: the apply run of the state against the          *)
(* generation with the same template, replacements and document.           *)
(***************************************************************************)
SameInputsGenerated == Handle("generate", tmpl, run.repl, FALSE, run.doc)
MutationsIn(log) == SelectSeq(log, LAMBDA e : e.op \in MutatingOps)
PlainTextOnly == \A l \in DOMAIN run.repl : run.repl[l].kind = "str"
ComparableApply ==
    /\ Ran("apply")
    /\ ~run.detect
    /\ PlainTextOnly
    /\ \A i \in PhIndexes : InTarget(i)

\* C25: an apply run without detection, with plain text replacements, onto a
\* target that has every page of the template performs for every placeholder
\* the erase operations and the insert, with the same effective style, that
\* generate_document performs on that document, and returns the same
\* replacedCount.
C25_ApplyMatchesGenerate ==
    ComparableApply =>
        /\ MutationsIn(run.out.log) = MutationsIn(SameInputsGenerated.log)
        /\ run.out.status = SameInputsGenerated.status
        /\ run.out.count = SameInputsGenerated.count

\* the same for the templates whose styles ask for no custom background size
C25_ApplyMatchesGenerateWithoutCustomSize ==
    (ComparableApply
        /\ \A i \in PhIndexes : ~CustomBackground(DefaultStyleOf(i))) =>
        /\ MutationsIn(run.out.log) = MutationsIn(SameInputsGenerated.log)
        /\ run.out.status = SameInputsGenerated.status
        /\ run.out.count = SameInputsGenerated.count

\* the effective style of placeholder i in the run of the state
EffectiveStyleOf(i) ==
    IF Ran("generate") /\ HasKey(i)
    THEN EffectiveStyle(tmpl[i].style, ReplacementStyle(run.repl[tmpl[i].label]))
    ELSE DefaultStyleOf(i)

\* placeholder i is to be replaced and its effective style has no background colour
TransparentBackground(i) ==
    /\ HasKey(i)
    /\ ValueOf(i) # ""
    /\ InTarget(i)
    /\ "background_color" \in DOMAIN EffectiveStyleOf(i)
    /\ EffectiveStyleOf(i).background_color = "null"

\* C26: a placeholder whose effective style has a null background colour is
\* replaced without error in generation and in apply: the run does not fail
\* at it, it is inserted and counted in a run that returns, and no fill is
\* derived from the missing colour.
C26_NullBackgroundIsTransparent ==
    (run.mode \in {"generate", "apply"}) =>
        \A i \in PhIndexes :
            TransparentBackground(i) =>
                /\ run.out.failedAt # i
                /\ run.out.status = "ok" => InsertsOf(i) # {}
                /\ \A r \in OfOp(i, "redact") : run.out.log[r].arg = "null"

(***************************************************************************)
(* The auto-fit loop of _insert_text, one iteration per step: here drawn   *)
(* holds the line being fitted and its font size.                          *)
(***************************************************************************)
\* text_len is the measured width of the line at fontsize, available the width
\* it must stay under
Fitting(status, i, line_text, fontname, fontsize, original_fontsize, available) ==
    [status |-> status, line |-> i, text |-> line_text, fontname |-> fontname,
     fontsize |-> fontsize, original_fontsize |-> original_fontsize,
     text_len |-> MeasureTextWidth(line_text, fontname, fontsize),
     available |-> available]

FitAvailable == AvailableWidth(call.rect, DictGet(CallStyleDict, "padding", QInt(1)))

\* while fontsize > 4: if text_len < available: break
FitContinues(f) ==
    /\ QLt(QInt(4), f.fontsize)
    /\ ~QLt(f.text_len, f.available)

\* fontsize -= 0.5
NextSizeSame(fontsize) == fontsize
NextSize(fontsize) == QSub(fontsize, Q(1, 2))

InitFit ==
    /\ tmpl = <<>>
    /\ run = Idle
    /\ page = NoPage
    /\ det = NoDetection
    /\ CallByBox(call)
    /\ drawn = NoDraws

\* the loop is entered for a non-blank line with its clamped candidate size
FitEnter ==
    /\ drawn.status = "none"
    /\ \E i \in NonBlankIndexes :
          LET lay == LineLayout(call.rect, Len(NewLines), call.lines_data,
                                call.strict_match, CallFontSize, i)
              size == ClampFontSize(lay.fontsize[1], CallFontSize)
          IN /\ ~lay.raised /\ lay.fontsize # None
             /\ drawn' = Fitting("fitting", i, Strip(NewLines[i + 1]),
                                 FontName(DictGet(CallStyleDict, "font_name", "helv"),
                                          DictGet(CallStyleDict, "font_weight", "normal")),
                                 size, size, FitAvailable)
    /\ UNCHANGED <<tmpl, run, page, det, call>>

FitStep ==
    /\ drawn.status = "fitting"
    /\ FitContinues(drawn)
    /\ drawn' = Fitting("fitting", drawn.line, drawn.text, drawn.fontname,
                        NextSize(drawn.fontsize), drawn.original_fontsize,
                        drawn.available)
    /\ UNCHANGED <<tmpl, run, page, det, call>>

FitExit ==
    /\ drawn.status = "fitting"
    /\ ~FitContinues(drawn)
    /\ drawn' = [drawn EXCEPT !.status = "fitted"]
    /\ UNCHANGED <<tmpl, run, page, det, call>>

\* the line is drawn and the loop over the lines goes on
FitLeave ==
    /\ drawn.status = "fitted"
    /\ drawn' = NoDraws
    /\ UNCHANGED <<tmpl, run, page, det, call>>

NextFit == FitEnter \/ FitStep \/ FitExit \/ FitLeave

\* the loop body runs to its end once entered: nothing else is scheduled
SpecFit ==
    InitFit /\ [][NextFit]_vars /\ WF_vars(FitStep) /\ WF_vars(FitExit)

InLoop == drawn.status \in {"fitting", "fitted"}
Ceiling(q) == (q.num + q.den - 1) \div q.den
Decrements == QMul(QSub(drawn.original_fontsize, drawn.fontsize), QInt(2))
MostDecrements == Ceiling(QMul(QSub(drawn.original_fontsize, QInt(4)), QInt(2)))

\* what holds in the loop: the decrements made so far are a whole number within
\* the bound, and on exit the text fits or the size is at most 4 and is the
\* size the loop computes as a whole
FitWithinBound ==
    InLoop =>
        /\ Decrements.den = 1
        /\ 0 <= Decrements.num /\ Decrements.num <= MostDecrements
        /\ drawn.status = "fitted" =>
              /\ \/ QLt(MeasureTextWidth(drawn.text, drawn.fontname, drawn.fontsize),
                        FitAvailable)
                 \/ QLe(drawn.fontsize, QInt(4))
              /\ drawn.available = FitAvailable
              /\ drawn.fontsize = AutoFit(drawn.text, drawn.fontname,
                                          drawn.original_fontsize, FitAvailable)

GroupsAfter(n) == GroupWords(SubSeq(page.words, 1, n), <<>>)
\* the lines that hold word i, and the words of line k in the order of its text
LinesOf(i) == {k \in 1..Len(det.lines) : page.words[i].text[1] \in Range(det.lines[k].text)}
WordCount(k) == Cardinality({p \in 1..Len(det.lines[k].text) : det.lines[k].text[p] # " "})
RECURSIVE SumWordCounts(_)
SumWordCounts(k) == IF k = 0 THEN 0 ELSE WordCount(k) + SumWordCounts(k - 1)
WordAt(k, p) == CHOOSE i \in WordIndexes : page.words[i].text[1] = det.lines[k].text[p]
WordPositions(k) == {p \in 1..Len(det.lines[k].text) : det.lines[k].text[p] # " "}

\* C28: the Clustered Words strategy partitions its input: every word is in
\* exactly one output line and the word counts of the lines sum to the number
\* of words; a cluster's key is the center of its first-seen word and stays
\* what it was as members are added; a word joins the first cluster in creation
\* order whose key is less than 5 from its center, and opens a cluster when
\* there is none; within each line the words are in non-decreasing x0.
C28_ClusteredWordsPartition ==
    Clustered =>
        /\ \A i \in WordIndexes : Cardinality(LinesOf(i)) = 1
        /\ SumWordCounts(Len(det.lines)) = Len(page.words)
        /\ Len(det.lines) = Len(GroupsAfter(Len(page.words)))
        /\ \A n \in WordIndexes :
              LET before == GroupsAfter(n - 1)
                  after == GroupsAfter(n)
                  w == page.words[n]
                  near == {g \in 1..Len(before) :
                              Abs(before[g].key - Center2(w)) < 2 * Tolerance}
              IN /\ \A g \in 1..Len(before) : after[g].key = before[g].key
                 /\ \A g \in 1..Len(after) : after[g].key = Center2(after[g].members[1])
                 /\ near # {} =>
                       /\ Len(after) = Len(before)
                       /\ \A g \in 1..Len(before) :
                             after[g].members =
                                 IF g = MinOf(near) THEN Append(before[g].members, w)
                                 ELSE before[g].members
                 /\ near = {} =>
                       /\ Len(after) = Len(before) + 1
                       /\ after[Len(after)].members = <<w>>
                       /\ \A g \in 1..Len(before) : after[g].members = before[g].members
        /\ \A k \in 1..Len(det.lines) :
              \A p, q \in WordPositions(k) :
                  p < q => page.words[WordAt(k, p)].x0 <= page.words[WordAt(k, q)].x0

\* three words, a line of two that came in descending x0, and a word that was
\* near two clusters and joined the earlier one
C28_Witness ==
    /\ Clustered
    /\ Len(page.words) = MaxWords
    /\ \E k \in 1..Len(det.lines) :
          \E p, q \in WordPositions(k) : p < q /\ WordAt(k, p) > WordAt(k, q)
    /\ \E n \in WordIndexes :
          LET before == GroupsAfter(n - 1)
              near == {g \in 1..Len(before) :
                          Abs(before[g].key - Center2(page.words[n])) < 2 * Tolerance}
          IN Cardinality(near) = 2

(***************************************************************************)
(* The even layout of _insert_text.                                        *)
(***************************************************************************)
InsideBox(y) == QLt(QInt(call.rect.y0), y) /\ QLt(y, QInt(call.rect.y1))

\* C29: without prior line data, and the rectangle having positive height,
\* the line at index i of N candidate lines is drawn at the baseline
\* rect.y0 + (i + 0.8) * (rect.height / N), which lies strictly between
\* rect.y0 and rect.y1 for every 0 <= i < N, and the baselines strictly
\* increase with i.
C29_EvenBaselinesInsideBox ==
    (Inserted /\ PriorCount = 0 /\ call.rect.y1 > call.rect.y0) =>
        /\ \A d \in Draws :
              /\ d.line \in LineIndexes
              /\ d.baseline = EvenSlot(d.line, Len(NewLines))
              /\ InsideBox(d.baseline)
        /\ \A d, e \in Draws : d.line < e.line => QLt(d.baseline, e.baseline)
        /\ \A i \in LineIndexes : InsideBox(EvenSlot(i, Len(NewLines)))

\* two lines drawn in the low box, the second one in the last slot
C29_Witness ==
    /\ Inserted
    /\ PriorCount = 0
    /\ call.rect.y1 - call.rect.y0 = 7
    /\ Len(NewLines) = 2
    /\ Len(drawn.draws) = 2
    /\ \E d, e \in Draws :
          /\ d.line = 0 /\ e.line = 1
          /\ QLt(d.baseline, e.baseline)
          /\ e.baseline = Q(2063, 10)

(***************************************************************************)
(* The preview of a template against a target: templates as create_template*)
(* and update_template leave them, labels repeated or not, handed to       *)
(* detect_text_at_template_positions.                                      *)
(***************************************************************************)
\* the requests are served one at a time, as in Next
NextPreview ==
    \/ (run.mode = "idle" /\ CreateTemplate)
    \/ (run.mode = "idle" /\ UpdateTemplate)
    \/ DetectTextAtTemplatePositions
    \/ Respond

SpecPreview == InitTemplates /\ [][NextPreview]_vars

\* the placeholders the handler read, and the last one that carries a label
Previewed == run.out.tmpl
PreviewedIndexes == 1..Len(Previewed)
PreviewedLabels == {Previewed[i].label : i \in PreviewedIndexes}
LastCarrying(l) ==
    CHOOSE i \in PreviewedIndexes :
        /\ Previewed[i].label = l
        /\ \A j \in PreviewedIndexes : Previewed[j].label = l => j <= i
OnTargetPage(i) == Previewed[i].page < run.doc.npages

\* C30: detect_text_at_template_positions returns a mapping with exactly one
\* entry per distinct placeholder label of the template: the text the detector
\* returned at the placeholder, or the marker "[Page N not found]" when the
\* page of the placeholder is not a page of the target (of two placeholders
\* with one label, the one read last); and it deletes no widget, redacts
\* nothing, inserts nothing and saves nothing.
C30_PreviewReturnsOneEntryPerLabel ==
    Ran("preview") =>
        /\ run.out.status = "ok"
        /\ run.out.returned # None
        /\ DOMAIN run.out.returned[1] = PreviewedLabels
        /\ \A l \in PreviewedLabels :
              LET i == LastCarrying(l)
              IN IF OnTargetPage(i)
                 THEN /\ Cardinality(OfOp(i, "detect")) = 1
                      /\ \A e \in OfOp(i, "detect") :
                            /\ run.out.log[e].rect = Previewed[i].rect
                            /\ run.out.returned[1][l] = run.out.log[e].arg
                 ELSE /\ OfOp(i, "detect") = {}
                      /\ run.out.returned[1][l] = PageNotFound(Previewed[i].page)
        /\ Mutations = {}
        /\ SavedPaths = {}
        /\ AllOps \subseteq {"open", "detect", "close"}

\* a label carried by two placeholders, the last of them off the target and
\* so answered by the marker, next to a label answered by the detected text
C30_Witness ==
    /\ Ran("preview")
    /\ run.out.returned # None
    /\ \E i, j, k \in PreviewedIndexes :
          /\ i < j
          /\ Previewed[i].label = Previewed[j].label
          /\ Previewed[k].label # Previewed[i].label
          /\ OnTargetPage(i) /\ ~OnTargetPage(j) /\ OnTargetPage(k)
          /\ run.out.returned[1][Previewed[j].label] = "[Page 1 not found]"
          /\ run.out.returned[1][Previewed[k].label] = "o"
    /\ Cardinality(DetectorRuns) = 2

====
